---- MODULE Spec2Model ----
(***************************************************************************)
(* BYTE-90 web installer: the serial transport (command/response           *)
(* correlation over a single pending-command slot, line reassembly and     *)
(* classification, connect / mode validation / disconnect) and the update  *)
(* orchestrator (status check, reset, START_UPDATE, chunk loop with        *)
(* consecutive-error ceiling, FINISH_UPDATE, abort, out-of-band progress). *)
(*                                                                         *)
(* The model follows src/script.js (serial, updater, ui, global handlers). *)
(* The React hooks (src/src/hooks/useSerial.ts, src/unnamed/part_000) hold *)
(* the same sendCommand, handleResponse, chunk loop and abortUpdate.       *)
(*                                                                         *)
(* JavaScript runs one task at a time: an action is one task (a timer, a   *)
(* read that delivered a line, a click, a settled write) together with the *)
(* promise continuations it triggers, up to the next await of a timer, of  *)
(* the device or of the user.  Time is not measured: a timer that is armed *)
(* may fire at any later step.                                             *)
(***************************************************************************)
EXTENDS Integers, Sequences, FiniteSets, TLC

\* ------------------------------------------------------------- bounds
MaxChunks  == 2   \* largest number of chunks of a selected file
MaxUpdates == 1   \* startUpdate invocations in one run
MaxConnects == 2  \* connect invocations in one run
MaxStream  == 4   \* bytes of an incoming stream (line reassembly)
MaxLines   == 2   \* lines handed to handleResponse (routing by revision)
MaxSends   == 1   \* commands sent after the first one settled (routing by revision)

\* --------------------------------------------------- program constants
CHUNK_SIZE == 128
MAX_RETRIES == 2
maxConsecutiveErrors == 3
START_RETRIES == 2
COMMAND_TIMEOUT == 10000
CHUNK_TIMEOUT == 10000
GET_INFO_TIMEOUT == 5000

\* ------------------------------------------------------------- frames
\* One complete trimmed line as handleResponse sees it.  `json` is how the
\* text after the prefix parses: "obj" an object, "null" the JSON value null,
\* "bad" not JSON.  The other fields are the fields of the object ("absent"
\* / FALSE / 0 when the object does not carry them).
Frame(prefix, json, success, completed, state, active, mode, message, prog) ==
  [prefix |-> prefix, json |-> json, success |-> success,
   completed |-> completed, state |-> state, update_active |-> active,
   current_mode |-> mode, message |-> message, progress |-> prog]

Frames ==
  { Frame("OK", "obj", "true", FALSE, "RECEIVING", FALSE, "Update Mode", "absent", 0),
    Frame("OK", "obj", "true", FALSE, "IDLE", TRUE, "Normal Mode", "absent", 0),
    Frame("OK", "obj", "false", FALSE, "absent", FALSE, "absent", "devmsg", 0),
    Frame("OK", "obj", "absent", FALSE, "absent", FALSE, "absent", "absent", 0),
    Frame("OK", "bad", "absent", FALSE, "absent", FALSE, "absent", "absent", 0),
    Frame("OK", "null", "absent", FALSE, "absent", FALSE, "absent", "absent", 0),
    Frame("ERROR", "obj", "true", FALSE, "absent", FALSE, "absent", "devmsg", 0),
    Frame("LOG", "bad", "absent", FALSE, "absent", FALSE, "absent", "absent", 0),
    Frame("PROGRESS", "obj", "true", FALSE, "RECEIVING", FALSE, "absent", "absent", 50),
    Frame("PROGRESS", "obj", "true", TRUE, "absent", FALSE, "absent", "absent", 100),
    Frame("PROGRESS", "obj", "false", TRUE, "absent", FALSE, "absent", "flash write error", 0),
    Frame("PROGRESS", "obj", "false", TRUE, "absent", FALSE, "absent", "absent", 0),
    Frame("PROGRESS", "null", "absent", FALSE, "absent", FALSE, "absent", "absent", 0) }

NoResp == Frame("none", "none", "absent", FALSE, "absent", FALSE, "absent", "absent", 0)

\* ------------------------------------------------------------- state
VARIABLES
  serialPort,        \* serialPort !== null
  reader,            \* reader !== null
  writer,            \* writer !== null
  isConnected,       \* global isConnected
  listening,         \* the read loop of startListening is running
  pendingCommand,    \* serial.pendingCommand: "none" = null, else the call it belongs to
  calls,             \* promises of sendCommand that have not settled
  upd,               \* the running updater.startUpdate invocation
  abt,               \* the running updater.abortUpdate invocation
  con,               \* the running serial.connect invocation
  dis,               \* the running serial.disconnect invocation
  updateInProgress,  \* global updateInProgress (and ui.updateUpdateState)
  updateStatus,      \* elements.updateStatus
  connectionStatus,  \* elements.connectionStatus
  progress,          \* progress bar: [percent, shown]
  uiConnected,       \* ui.updateConnectionState: update section / disconnect shown
  deviceInfo,        \* deviceInfo !== null
  closeTimers,       \* scheduled disconnects of handleUpdateSuccess not fired yet
  hist,              \* observation of the run (what was written, what happened last)
  lr,                \* line reassembly of startListening on a byte stream
  rt                 \* handleResponse of one revision on a sequence of lines

vars == << serialPort, reader, writer, isConnected, listening, pendingCommand,
           calls, upd, abt, con, dis, updateInProgress, updateStatus,
           connectionStatus, progress, uiConnected, deviceInfo, closeTimers,
           hist, lr, rt >>

\* ------------------------------------------------------------- calls
\* A call is one invocation of sendCommand whose promise has not settled.
\* It is named after who awaits it: "upd" startUpdate, "abt" abortUpdate,
\* "con" connect, "cln" nobody (handleUpdateError does not await its
\* ABORT_UPDATE).  Each of them has one call outstanding at a time.
\*   cmd    the command
\*   wr     "sent"    the command was handed to an open writer
\*          "closing" it was handed to a writer that is being closed
\*          "notconn" writer was null: the promise rejects, nothing registered
\*   timer  the setTimeout of the call is armed
\*   arg    the chunk index a SEND_CHUNK carries (0 otherwise)
NoCall == [cmd |-> "none", wr |-> "none", timer |-> FALSE, arg |-> 0]

Owners == {"upd", "abt", "con", "cln"}

Active(c) == calls[c].cmd # "none"

\* What a write meets: "none" writer is null, "closing" writer.close() was
\* called by a disconnect that has not set writer to null yet, "open".
WriterState ==
  IF ~writer THEN "none" ELSE IF dis.pc = "wclose" THEN "closing" ELSE "open"

\* The part of the state one task changes step by step: m.calls, m.pending
\* and m.hist are the values in the middle of the task.
Mid == [calls |-> calls, pending |-> pendingCommand, hist |-> hist]

Commit(m) ==
  /\ calls' = m.calls
  /\ pendingCommand' = m.pending
  /\ hist' = m.hist

\* sendCommand: the deadline in ms of `command` sent with customTimeout.
timeoutMs(command, customTimeout) ==
  IF command = "SEND_CHUNK" THEN CHUNK_TIMEOUT ELSE customTimeout

\* The customTimeout of the call that sends cmd: validateDeviceMode passes
\* its own for GET_INFO, every other caller leaves the default.
customTimeout(cmd) ==
  IF cmd = "GET_INFO" THEN GET_INFO_TIMEOUT ELSE COMMAND_TIMEOUT

\* serial.sendCommand(cmd) by `owner` against writer state w.
\* With writer null the async function throws before anything is registered.
\* Otherwise the timer is armed, serial.pendingCommand is overwritten with the
\* new continuation whatever it held, and the command is written.
sendCommand(m, cmd, owner, arg, w) ==
  LET wr == IF w = "none" THEN "notconn" ELSE IF w = "closing" THEN "closing" ELSE "sent"
  IN [ calls |-> [m.calls EXCEPT ![owner] =
                    [cmd |-> cmd, wr |-> wr, timer |-> (w # "none"), arg |-> arg]],
       pending |-> IF w = "none" THEN m.pending ELSE owner,
       hist |-> [m.hist EXCEPT
                   !.last.overwrote = @ \/ (w # "none" /\ m.pending # "none"),
                   !.last.sent = IF w = "open" THEN cmd ELSE @] ]

\* What the last task was: ev the kind of task ("response": a line resolved
\* the pending command, "invalid": it made the handler reject), frame the progress line it
\* handled, to the call it settled ("none": no call settled), late whether
\* the line was the answer to a command that had timed out, info what an
\* invocation that ended in this task returned, sent the command this task
\* handed to an open writer, overwrote whether that sendCommand replaced a
\* continuation in serial.pendingCommand.  A disconnect that emptied the slot
\* notes in info the call whose continuation it dropped: <<"cut", call>>.
Last(ev, frame, to, late, info) ==
  [ev |-> ev, frame |-> frame, to |-> to, late |-> late, info |-> info,
   sent |-> "none", overwrote |-> FALSE]

Note(m, l) == [m EXCEPT !.hist.last = l]

\* The outcome of a call: resolve(resp) or reject(err).
Resolved(resp) == [ok |-> TRUE, resp |-> resp, err |-> << >>]
Rejected(err) == [ok |-> FALSE, resp |-> NoResp, err |-> err]

\* ------------------------------------------------------------ updater
Min(a, b) == IF a < b THEN a ELSE b

\* Math.floor in the place of Math.ceil.
TotalChunksFloor(size) == size \div CHUNK_SIZE

\* Math.ceil(arrayBuffer.byteLength / CHUNK_SIZE)
TotalChunks(size) == (size + CHUNK_SIZE - 1) \div CHUNK_SIZE

ChunkEnd(i, size) == Min(i * CHUNK_SIZE + CHUNK_SIZE, size)

\* The files a user selects: k chunks, the last one partial when k > 1.
FileSizes == { k * CHUNK_SIZE - (k - 1) : k \in 1..MaxChunks }

Status(type, msg) == [type |-> type, msg |-> msg]

Hidden == Status("hidden", << >>)

Progress(percent, shown) == [percent |-> percent, shown |-> shown]

\* Locals of startUpdate / transferFirmwareData, where it waits (pc), and what
\* the run observed of it: streak (SEND_CHUNK attempts that failed in a row),
\* ackedEnd (end offset of the last chunk acknowledged with success), prevIdx /
\* prevFailed (index and fate of the previous SEND_CHUNK attempt).
IdleUpd ==
  [pc |-> "idle", size |-> 0, i |-> 0, bytesTransferred |-> 0,
   consecutiveErrors |-> 0, attempt |-> 0, streak |-> 0, ackedEnd |-> 0,
   prevIdx |-> -1, prevFailed |-> FALSE]

\* The values a task of the updater works on.
Task(m) ==
  [u |-> upd, uip |-> updateInProgress, st |-> updateStatus, pr |-> progress,
   ct |-> closeTimers, m |-> m]

ApplyTask(t) ==
  /\ upd' = t.u
  /\ updateInProgress' = t.uip
  /\ updateStatus' = t.st
  /\ progress' = t.pr
  /\ closeTimers' = t.ct
  /\ Commit(t.m)

updateProgress(t, percent) == [t EXCEPT !.pr = Progress(percent, TRUE)]

\* await serial.sendCommand(cmd) inside startUpdate: send, then wait at pc.
AwaitSend(t, cmd, arg, pc) ==
  [t EXCEPT !.m = sendCommand(@, cmd, "upd", arg, WriterState), !.u.pc = pc]

\* updater.handleUpdateError: failure status, update state cleared, and an
\* ABORT_UPDATE that nobody awaits.  The task notes the order in which it
\* did the two: the status first, the command after it.
handleUpdateError(t, msg) ==
  [t EXCEPT !.st = Status("error", <<"Update failed">> \o msg),
            !.uip = FALSE,
            !.u = IdleUpd,
            !.m = [sendCommand(t.m, "ABORT_UPDATE", "cln", 0, WriterState)
                     EXCEPT !.hist.last.info = <<"showStatus", "sendCommand">>]]

\* A handleUpdateSuccess that schedules no disconnect.
handleUpdateSuccessNoClose(t) ==
  [t EXCEPT !.pr = Progress(100, TRUE),
            !.st = Status("success", <<"Update completed! Device will restart automatically.">>),
            !.uip = FALSE,
            !.u = IdleUpd]

\* updater.handleUpdateSuccess
handleUpdateSuccess(t) ==
  [t EXCEPT !.pr = Progress(100, TRUE),
            !.st = Status("success", <<"Update completed! Device will restart automatically.">>),
            !.uip = FALSE,
            !.ct = @ + 1,
            !.u = IdleUpd]

\* Second half of prepareDeviceForUpdate: the unconditional ABORT_UPDATE.
resetDevice(t) == AwaitSend(updateProgress(t, 1), "ABORT_UPDATE", 0, "reset")

\* updater.initializeDeviceUpdate: first attempt of sendCommandWithRetry.
initializeDeviceUpdate(t) ==
  AwaitSend([updateProgress(t, 3) EXCEPT !.u.attempt = 1], "START_UPDATE", 0, "start")

\* updater.finalizeUpdate: first attempt of sendCommandWithRetry.
finalizeUpdate(t) ==
  AwaitSend([updateProgress(t, 95) EXCEPT !.u.attempt = 1], "FINISH_UPDATE", 0, "finish")

\* Top of the chunk loop for index t.u.i: periodic progress, then SEND_CHUNK.
sendChunk(t) ==
  LET i == t.u.i
      total == TotalChunks(t.u.size)
      t1 == IF i % 20 = 0 \/ i = total - 1
            THEN updateProgress(t, 10 + (i * 80) \div total) ELSE t
  IN AwaitSend(t1, "SEND_CHUNK", i, "chunk")

\* A loop that ends one index early: `i < totalChunks - 1`.
nextChunkEarly(t) ==
  LET u == t.u
      u1 == [u EXCEPT !.bytesTransferred = ChunkEnd(u.i, u.size), !.i = u.i + 1]
      t1 == [t EXCEPT !.u = u1]
  IN IF u1.i < TotalChunks(u.size) - 1 THEN sendChunk(t1) ELSE finalizeUpdate(t1)

\* End of a loop iteration that was not `continue`d: bytesTransferred = end,
\* i++, and either the next iteration or the end of the loop.
nextChunk(t) ==
  LET u == t.u
      u1 == [u EXCEPT !.bytesTransferred = ChunkEnd(u.i, u.size), !.i = u.i + 1]
      t1 == [t EXCEPT !.u = u1]
  IN IF u1.i < TotalChunks(u.size) THEN sendChunk(t1) ELSE finalizeUpdate(t1)

\* A catch block without `i--`: the loop's i++ moves on to the next chunk.
retryChunkSkips(t) == sendChunk([t EXCEPT !.u.i = @ + 1])

\* The catch block's `i--; continue` followed by the loop's i++.
retryChunk(t) == sendChunk(t)

\* consecutiveErrors after a failed attempt: a response with success false
\* is counted in the try block and again in the catch block, a rejected
\* promise in the catch block only.
errorsAfterFailure(ce, out) == IF out.ok THEN ce + 2 ELSE ce + 1

ErrorOf(out, fallback) ==
  IF ~out.ok THEN out.err
  ELSE IF out.resp.message # "absent" THEN <<out.resp.message>> ELSE fallback

chunkFailed(t, out) ==
  LET u == t.u
      ce == errorsAfterFailure(u.consecutiveErrors, out)
      u1 == [u EXCEPT !.consecutiveErrors = ce, !.streak = @ + 1,
                      !.prevIdx = u.i, !.prevFailed = TRUE]
      t1 == [t EXCEPT !.u = u1]
  IN IF ce >= maxConsecutiveErrors
     THEN handleUpdateError(t1,
            <<"Too many consecutive errors", ToString(ce), "Last error">>
              \o ErrorOf(out, <<"Chunk rejected by device">>))
     ELSE retryChunk(t1)

chunkAcked(t) ==
  LET u == t.u
      u1 == [u EXCEPT !.consecutiveErrors = 0, !.streak = 0,
                      !.ackedEnd = ChunkEnd(u.i, u.size),
                      !.prevIdx = u.i, !.prevFailed = FALSE]
      t1 == [t EXCEPT !.u = u1]
  IN IF u.i < TotalChunks(u.size) - 1
     THEN [t1 EXCEPT !.u.pc = "chunkDelay"]
     ELSE nextChunk(t1)

\* sendCommandWithRetry: the delay in ms before the retry that follows the
\* failed attempt number `attempt` of `cmd`.
retryDelay(cmd, attempt) == IF cmd = "SEND_CHUNK" THEN 1000 ELSE 200

\* The back-off of sendCommandWithRetry; the task notes the delay it set.
backOff(t, backoff) ==
  LET cmd == IF backoff = "startBackoff" THEN "START_UPDATE" ELSE "FINISH_UPDATE"
  IN [t EXCEPT !.u.pc = backoff,
               !.m.hist.last.info = <<"retry in", retryDelay(cmd, t.u.attempt)>>]

\* A retry loop that gives up one attempt late.
retryOnceMore(t, out, retries, backoff) ==
  IF t.u.attempt = retries + 1
  THEN handleUpdateError(t, out.err)
  ELSE backOff(t, backoff)

\* One attempt of sendCommandWithRetry failed: rethrow on the last attempt,
\* else back off.
retryOrFail(t, out, retries, backoff) ==
  IF t.u.attempt = retries
  THEN handleUpdateError(t, out.err)
  ELSE backOff(t, backoff)

\* initializeDeviceUpdate without the check of response.state.
updSettledAnyState(t, out) ==
  LET pc == t.u.pc IN
  CASE pc = "status" ->
         IF out.ok /\ out.resp.update_active
         THEN AwaitSend(t, "ABORT_UPDATE", 0, "statusAbort")
         ELSE resetDevice(t)
    [] pc = "statusAbort" ->
         IF out.ok THEN [t EXCEPT !.u.pc = "settle1"] ELSE resetDevice(t)
    [] pc = "reset" ->
         IF out.ok THEN [t EXCEPT !.u.pc = "settle2"] ELSE initializeDeviceUpdate(t)
    [] pc = "start" ->
         IF ~out.ok THEN retryOrFail(t, out, START_RETRIES, "startBackoff")
         ELSE IF out.resp.success # "true"
         THEN handleUpdateError(t, ErrorOf(out, <<"START_UPDATE command failed">>))
         ELSE [updateProgress(t, 5) EXCEPT !.u.pc = "readFile"]
    [] pc = "chunk" ->
         IF out.ok /\ out.resp.success = "true" THEN chunkAcked(t) ELSE chunkFailed(t, out)
    [] pc = "finish" ->
         IF ~out.ok THEN retryOrFail(t, out, MAX_RETRIES, "finishBackoff")
         ELSE IF out.resp.success # "true"
         THEN handleUpdateError(t, ErrorOf(out, <<"Failed to finish update">>))
         ELSE handleUpdateSuccess(t)
    [] OTHER -> t

\* prepareDeviceForUpdate without its two try/catch blocks: a rejected
\* cleanup command ends the attempt.
updSettledFatal(t, out) ==
  LET pc == t.u.pc IN
  IF pc \in {"status", "statusAbort", "reset"} /\ ~out.ok
  THEN handleUpdateError(t, out.err)
  ELSE
  CASE pc = "status" ->
         IF out.ok /\ out.resp.update_active
         THEN AwaitSend(t, "ABORT_UPDATE", 0, "statusAbort")
         ELSE resetDevice(t)
    [] pc = "statusAbort" ->
         IF out.ok THEN [t EXCEPT !.u.pc = "settle1"] ELSE resetDevice(t)
    [] pc = "reset" ->
         IF out.ok THEN [t EXCEPT !.u.pc = "settle2"] ELSE initializeDeviceUpdate(t)
    [] pc = "start" ->
         IF ~out.ok THEN retryOrFail(t, out, START_RETRIES, "startBackoff")
         ELSE IF out.resp.success # "true"
         THEN handleUpdateError(t, ErrorOf(out, <<"START_UPDATE command failed">>))
         ELSE IF out.resp.state # "RECEIVING"
         THEN handleUpdateError(t, <<"Expected RECEIVING state, got", out.resp.state>>)
         ELSE [updateProgress(t, 5) EXCEPT !.u.pc = "readFile"]
    [] pc = "chunk" ->
         IF out.ok /\ out.resp.success = "true" THEN chunkAcked(t) ELSE chunkFailed(t, out)
    [] pc = "finish" ->
         IF ~out.ok THEN retryOrFail(t, out, MAX_RETRIES, "finishBackoff")
         ELSE IF out.resp.success # "true"
         THEN handleUpdateError(t, ErrorOf(out, <<"Failed to finish update">>))
         ELSE handleUpdateSuccess(t)
    [] OTHER -> t

\* The continuation of startUpdate when the call it awaits settles.
updSettled(t, out) ==
  LET pc == t.u.pc IN
  CASE pc = "status" ->
         IF out.ok /\ out.resp.update_active
         THEN AwaitSend(t, "ABORT_UPDATE", 0, "statusAbort")
         ELSE resetDevice(t)
    [] pc = "statusAbort" ->
         IF out.ok THEN [t EXCEPT !.u.pc = "settle1"] ELSE resetDevice(t)
    [] pc = "reset" ->
         IF out.ok THEN [t EXCEPT !.u.pc = "settle2"] ELSE initializeDeviceUpdate(t)
    [] pc = "start" ->
         IF ~out.ok THEN retryOrFail(t, out, START_RETRIES, "startBackoff")
         ELSE IF out.resp.success # "true"
         THEN handleUpdateError(t, ErrorOf(out, <<"START_UPDATE command failed">>))
         ELSE IF out.resp.state # "RECEIVING"
         THEN handleUpdateError(t, <<"Expected RECEIVING state, got", out.resp.state>>)
         ELSE [updateProgress(t, 5) EXCEPT !.u.pc = "readFile"]
    [] pc = "chunk" ->
         IF out.ok /\ out.resp.success = "true" THEN chunkAcked(t) ELSE chunkFailed(t, out)
    [] pc = "finish" ->
         IF ~out.ok THEN retryOrFail(t, out, MAX_RETRIES, "finishBackoff")
         ELSE IF out.resp.success # "true"
         THEN handleUpdateError(t, ErrorOf(out, <<"Failed to finish update">>))
         ELSE handleUpdateSuccess(t)
    [] OTHER -> t

\* The continuation of startUpdate when the timer it awaits fires.
updResumed(t) ==
  LET pc == t.u.pc IN
  CASE pc = "settle1" -> resetDevice(t)
    [] pc = "settle2" -> initializeDeviceUpdate(t)
    [] pc = "startBackoff" ->
         AwaitSend([t EXCEPT !.u.attempt = @ + 1], "START_UPDATE", 0, "start")
    [] pc = "readFile" -> sendChunk(updateProgress(t, 10))
    [] pc = "chunkDelay" -> nextChunk(t)
    [] pc = "finishBackoff" ->
         AwaitSend([t EXCEPT !.u.attempt = @ + 1], "FINISH_UPDATE", 0, "finish")
    [] OTHER -> t

\* --------------------------------------------------------- variable groups
portVars == << serialPort, reader, writer >>

connVars == << serialPort, reader, writer, isConnected, listening, uiConnected,
               deviceInfo, connectionStatus, con, dis >>

updVars == << upd, updateInProgress, updateStatus, progress, closeTimers >>

\* ------------------------------------------------------ updater: actions
UpdDelays == {"settle1", "settle2", "startBackoff", "readFile", "chunkDelay", "finishBackoff"}

\* Click on the upload button: updater.startUpdate up to its first await.
\* The button is shown while the update section is (uiConnected) and no update
\* is in progress.  One invocation at a time is followed, and the next one
\* once the ABORT_UPDATE of the previous one's handleUpdateError has settled.
StartUpdate(size) ==
  /\ uiConnected /\ ~updateInProgress
  /\ upd.pc = "idle" /\ ~Active("cln")
  /\ hist.updates < MaxUpdates
  /\ LET m0 == Note([Mid EXCEPT !.hist.updates = @ + 1],
                    Last("startUpdate", NoResp, "none", FALSE, << >>))
         t0 == [Task(m0) EXCEPT !.u = [IdleUpd EXCEPT !.size = size],
                                !.uip = TRUE, !.st = Hidden]
     IN ApplyTask(AwaitSend(updateProgress(t0, 0), "GET_STATUS", 0, "status"))
  /\ UNCHANGED << connVars, abt, lr, rt >>

\* A setTimeout (or file.arrayBuffer()) that startUpdate awaits completes.
UpdTimer ==
  /\ upd.pc \in UpdDelays
  /\ ApplyTask(updResumed(Task(Note(Mid, Last("delay", NoResp, "none", FALSE, << >>)))))
  /\ UNCHANGED << connVars, abt, lr, rt >>

\* -------------------------------------------------------- abortUpdate
IdleAbt == [pc |-> "idle", during |-> "none"]

UpdPhase ==
  IF upd.pc \in {"chunk", "chunkDelay"} THEN "transferring"
  ELSE IF upd.pc = "idle" THEN "idle" ELSE "other"

\* Click on the abort button (in the update section, shown while
\* updateInProgress): abortUpdate up to its await.
AbortUpdate ==
  /\ uiConnected /\ updateInProgress
  /\ abt.pc = "idle"
  /\ abt' = [pc |-> "wait", during |-> UpdPhase]
  /\ Commit(sendCommand(Note(Mid, Last("abortUpdate", NoResp, "none", FALSE, << >>)),
                        "ABORT_UPDATE", "abt", 0, WriterState))
  /\ UNCHANGED << connVars, updVars, lr, rt >>

\* The rest of abortUpdate: the try block after the await, or the catch.
abortSettled(t, out) ==
  IF out.ok
  THEN [t EXCEPT !.uip = FALSE, !.pr = Progress(0, FALSE),
                 !.st = Status("warning", <<"Update aborted">>)]
  ELSE t

\* window 'unhandledrejection' handler.
unhandledRejection(t) ==
  IF t.uip
  THEN [t EXCEPT !.st = Status("error", <<"An unexpected error occurred during update">>),
                 !.uip = FALSE]
  ELSE t

\* ------------------------------------------------------------ disconnect
IdleDis == [pc |-> "idle", caller |-> "none"]

IdleCon == [pc |-> "idle", cause |-> "none", msg |-> << >>]

\* serial.disconnect() called by `caller`, up to its first await; sp is the
\* value of serialPort at the call.  It resets the progress bar and hides both
\* status lines, returns at once when nothing is connected, and otherwise
\* sets isConnected false, clears serial.pendingCommand and starts releasing
\* the handles (reader.cancel() ends the read loop).
disconnectBegin(caller, m, sp) ==
  /\ progress' = Progress(0, FALSE)
  /\ updateStatus' = Hidden
  /\ connectionStatus' = Hidden
  /\ IF ~isConnected /\ ~sp
     THEN /\ dis' = [pc |-> "return", caller |-> caller]
          /\ Commit(m)
          /\ UNCHANGED << isConnected, listening >>
     ELSE /\ dis' = [pc |-> IF reader THEN "cancel" ELSE IF writer THEN "wclose" ELSE "sleep",
                     caller |-> caller]
          /\ Commit([m EXCEPT !.pending = "none",
                              !.hist.last.info = IF m.pending = "none" THEN @
                                                 ELSE <<"cut", m.pending>>])
          /\ isConnected' = FALSE
          /\ listening' = IF reader THEN FALSE ELSE listening

\* connect's error paths call serial.disconnect(); a disconnect that is
\* already running is waited for first.
conDisconnect(c1, m, sp) ==
  IF dis.pc = "idle"
  THEN /\ con' = [c1 EXCEPT !.pc = "closing"]
       /\ disconnectBegin("con", m, sp)
  ELSE /\ con' = [c1 EXCEPT !.pc = "wantdisc"]
       /\ Commit(m)
       /\ UNCHANGED << dis, isConnected, listening, progress, updateStatus, connectionStatus >>

ConDisconnect ==
  /\ con.pc = "wantdisc"
  /\ dis.pc = "idle"
  /\ conDisconnect(con, Note(Mid, Last("disconnect", NoResp, "none", FALSE, << >>)), serialPort)
  /\ UNCHANGED << portVars, uiConnected, deviceInfo, upd, updateInProgress,
                  closeTimers, abt, lr, rt >>

\* Click on the disconnect button (shown while uiConnected).
UserDisconnect ==
  /\ uiConnected
  /\ dis.pc = "idle"
  /\ disconnectBegin("user", Note(Mid, Last("disconnect", NoResp, "none", FALSE, << >>)), serialPort)
  /\ UNCHANGED << portVars, uiConnected, deviceInfo, con, upd, updateInProgress,
                  closeTimers, abt, lr, rt >>

\* The setTimeout of handleUpdateSuccess fires: serial.disconnect().
CloseTimer ==
  /\ closeTimers > 0
  /\ dis.pc = "idle"
  /\ closeTimers' = closeTimers - 1
  /\ disconnectBegin("timer", Note(Mid, Last("closeTimer", NoResp, "none", FALSE, << >>)), serialPort)
  /\ UNCHANGED << portVars, uiConnected, deviceInfo, con, upd, updateInProgress,
                  abt, lr, rt >>

\* What the caller does when its disconnect() has returned.
\*  - connect's catch blocks: every later disconnect() of the chain returns at
\*    once (it only hides the status lines again), and the last status shown is
\*    CONNECTION.FAILED(error.message); connect returns false.
\*  - the scheduled disconnect shows the 'restarting' status.
\* how: "closed" the call went through the release steps ("threw": the last
\* of them threw), "early" it returned at once.
disconnectReturn(caller, how) ==
  CASE caller = "con" /\ con.pc = "closing" ->
         /\ con' = IdleCon
         /\ connectionStatus' = Status("error", <<"Connection failed">> \o con.msg)
         /\ progress' = Progress(0, FALSE)
         /\ updateStatus' = Hidden
         /\ hist' = [hist EXCEPT !.last = Last("connectReturn", NoResp, "none", FALSE,
                                                <<con.cause, "false">> \o how)]
    [] caller = "con" /\ con.pc # "closing" ->
         /\ con' = [con EXCEPT !.pc = "port"]
         /\ hist' = [hist EXCEPT !.last = Last("disconnected", NoResp, "none", FALSE, how)]
         /\ UNCHANGED << connectionStatus, progress, updateStatus >>
    [] caller = "timer" ->
         /\ connectionStatus' = Status("success", <<"Update completed successfully. Device is restarting.">>)
         /\ hist' = [hist EXCEPT !.last = Last("disconnected", NoResp, "none", FALSE, how)]
         /\ UNCHANGED << con, progress, updateStatus >>
    [] OTHER ->
         /\ hist' = [hist EXCEPT !.last = Last("disconnected", NoResp, "none", FALSE, how)]
         /\ UNCHANGED << con, connectionStatus, progress, updateStatus >>

\* serial.disconnect() goes on after an await.  failed: the step awaited
\* (reader.cancel() and releaseLock(), writer.close(), serialPort.close())
\* threw; each has its own try / catch, so the handle is set to null and the
\* next step runs either way.
DisconnectStep(failed) ==
  /\ dis.pc \in {"cancel", "wclose", "sleep", "return"}
  /\ dis.pc = "return" => ~failed
  /\ dis.pc = "sleep" /\ ~serialPort => ~failed
  /\ CASE dis.pc = "cancel" ->
            /\ reader' = FALSE
            /\ dis' = [dis EXCEPT !.pc = IF writer THEN "wclose" ELSE "sleep"]
            /\ hist' = [hist EXCEPT !.last = Last("release", NoResp, "none", FALSE, << >>)]
            /\ UNCHANGED << serialPort, writer, uiConnected, deviceInfo, con,
                            connectionStatus, progress, updateStatus >>
       [] dis.pc = "wclose" ->
            /\ writer' = FALSE
            /\ dis' = [dis EXCEPT !.pc = "sleep"]
            /\ hist' = [hist EXCEPT !.last = Last("release", NoResp, "none", FALSE, << >>)]
            /\ UNCHANGED << serialPort, reader, uiConnected, deviceInfo, con,
                            connectionStatus, progress, updateStatus >>
       [] dis.pc = "sleep" ->
            /\ serialPort' = FALSE
            /\ deviceInfo' = FALSE
            /\ uiConnected' = FALSE
            /\ dis' = IdleDis
            /\ disconnectReturn(dis.caller,
                                IF failed THEN <<"closed", "threw">> ELSE <<"closed">>)
            /\ UNCHANGED << reader, writer >>
       [] OTHER ->
            /\ dis' = IdleDis
            /\ disconnectReturn(dis.caller, <<"early">>)
            /\ UNCHANGED << portVars, uiConnected, deviceInfo >>
  /\ UNCHANGED << isConnected, listening, pendingCommand, calls, upd,
                  updateInProgress, closeTimers, abt, lr, rt >>

\* --------------------------------------------------------------- connect
\* Click on the connect button (shown while not uiConnected): serial.connect
\* up to its first await.
Connect ==
  /\ ~uiConnected
  /\ con.pc = "idle"
  /\ dis.pc = "idle"
  /\ hist.connects < MaxConnects
  /\ LET m0 == Note([Mid EXCEPT !.hist.connects = @ + 1],
                    Last("connect", NoResp, "none", FALSE, << >>))
     IN IF isConnected \/ serialPort
        THEN /\ con' = [IdleCon EXCEPT !.pc = "predisc"]
             /\ disconnectBegin("con", m0, serialPort)
        ELSE /\ con' = [IdleCon EXCEPT !.pc = "port"]
             /\ progress' = Progress(0, FALSE)
             /\ updateStatus' = Hidden
             /\ connectionStatus' = Hidden
             /\ Commit(m0)
             /\ UNCHANGED << dis, isConnected, listening >>
  /\ UNCHANGED << portVars, uiConnected, deviceInfo, upd, updateInProgress,
                  closeTimers, abt, lr, rt >>

\* requestPort() and open() have settled.  "ok": the streams are taken,
\* isConnected and the UI are set, the read loop starts and validateDeviceMode
\* sends GET_INFO.  "cancelled": requestPort rejected.  "openfail": open
\* rejected after serialPort was assigned.
ConnectPort(outcome) ==
  /\ con.pc = "port"
  /\ LET m0 == Note(Mid, Last("port", NoResp, "none", FALSE, << >>)) IN
     CASE outcome = "ok" ->
                      /\ serialPort' = TRUE /\ reader' = TRUE /\ writer' = TRUE
            /\ isConnected' = TRUE
            /\ uiConnected' = TRUE
            /\ listening' = TRUE
            /\ connectionStatus' = Status("info", <<"Checking device mode...">>)
            /\ con' = [con EXCEPT !.pc = "info"]
            /\ Commit(sendCommand(m0, "GET_INFO", "con", 0, "open"))
            /\ UNCHANGED << dis, progress, updateStatus >>
       [] outcome = "cancelled" ->
            /\ conDisconnect([con EXCEPT !.cause = "NoPort", !.msg = <<"No port selected">>],
                             m0, serialPort)
            /\ UNCHANGED << portVars, uiConnected >>
       [] OTHER ->
            /\ serialPort' = TRUE
            /\ conDisconnect([con EXCEPT !.cause = "OpenFailed", !.msg = <<"Failed to open serial port">>],
                             m0, TRUE)
            /\ UNCHANGED << reader, writer, uiConnected >>
  /\ UNCHANGED << deviceInfo, upd, updateInProgress, closeTimers, abt, lr, rt >>

\* serial.validateDeviceMode after GET_INFO settled, and what connect does
\* with its outcome.
validateDeviceMode(m, out) ==
  IF out.ok /\ out.resp.success = "true" /\ out.resp.current_mode = "Update Mode"
  THEN /\ deviceInfo' = TRUE
       /\ connectionStatus' = Status("success", <<"Device connected successfully in Update Mode">>)
       /\ con' = IdleCon
       /\ Commit(Note(m, [m.hist.last EXCEPT !.ev = "connectReturn",
                                             !.info = <<"none", "true">>]))
       /\ UNCHANGED << dis, isConnected, listening, progress, updateStatus >>
  ELSE /\ deviceInfo' = IF out.ok /\ out.resp.success = "true" THEN TRUE ELSE deviceInfo
       /\ conDisconnect(
            IF out.ok /\ out.resp.success = "true"
            THEN [con EXCEPT !.cause = "WrongMode",
                             !.msg = <<"Wrong device mode", out.resp.current_mode>>]
            ELSE IF out.ok
            THEN [con EXCEPT !.cause = "NotVerified", !.msg = <<"Failed to get device info">>]
            ELSE [con EXCEPT !.cause = "NoAnswer", !.msg = out.err],
            m, serialPort)

\* ------------------------------------------------------------ transport
\* The promise of `call` settles with `out`: the continuation of whoever
\* awaits it runs in the same task.  m is the state after the settling code.
Settle(c, m, out) ==
  CASE c = "upd" ->
         /\ ApplyTask(updSettled(Task(m), out))
         /\ UNCHANGED << connVars, abt, lr, rt >>
    [] c = "abt" ->
         /\ ApplyTask(abortSettled(
              Task([m EXCEPT !.hist.last.info =
                      <<abt.during, IF out.ok THEN "aborted" ELSE "failed">>]), out))
         /\ abt' = IdleAbt
         /\ UNCHANGED << connVars, lr, rt >>
    [] c = "con" ->
         /\ validateDeviceMode(m, out)
         /\ UNCHANGED << portVars, uiConnected, upd, updateInProgress,
                         closeTimers, abt, lr, rt >>
    [] OTHER ->
         \* nobody awaits the promise: its rejection is an unhandled rejection
         /\ ApplyTask(IF out.ok THEN Task(m)
                      ELSE unhandledRejection(
                             Task([m EXCEPT !.hist.last.info = <<"unhandledrejection">>])))
         /\ UNCHANGED << connVars, abt, lr, rt >>

Without(c) == [calls EXCEPT ![c] = NoCall]

\* A deadline that is dropped when another command has taken the slot.
TimeoutOwnSlot(c) ==
  /\ Active(c) /\ calls[c].timer /\ calls[c].wr = "sent"
  /\ pendingCommand = c
  /\ Settle(c,
            Note([Mid EXCEPT !.calls = Without(c), !.pending = "none"],
                 Last("timeout", NoResp, c, FALSE, << >>)),
            Rejected(<<"Command timeout", calls[c].cmd>>))

\* The setTimeout callback of sendCommand: serial.pendingCommand = null,
\* whoever it belongs to, and reject.
Timeout(c) ==
  /\ Active(c) /\ calls[c].timer /\ calls[c].wr = "sent"
  /\ Settle(c,
            Note([Mid EXCEPT !.calls = Without(c), !.pending = "none"],
                 Last("timeout", NoResp, c, FALSE, << >>)),
            Rejected(<<"Command timeout", calls[c].cmd>>))

\* writer.write(...).catch: clearTimeout, serial.pendingCommand = null, reject.
WriteFail(c) ==
  /\ Active(c) /\ calls[c].wr \in {"sent", "closing"}
  /\ Settle(c,
            Note([Mid EXCEPT !.calls = Without(c), !.pending = "none"],
                 Last("writeFail", NoResp, c, FALSE, << >>)),
            Rejected(<<"Write failed">>))

\* sendCommand threw 'Not connected to device': the caller's await rejects.
NotConnected(c) ==
  /\ Active(c) /\ calls[c].wr = "notconn"
  /\ Settle(c,
            Note([Mid EXCEPT !.calls = Without(c)],
                 Last("notConnected", NoResp, c, FALSE, << >>)),
            Rejected(<<"Not connected to device">>))

\* A catch block that logs the parse error and does not return: the line goes
\* on to the routing with response still null.
ClassifyNoReturn(f) ==
  IF f.prefix \notin {"OK", "ERROR", "PROGRESS"} THEN "ignored"
  ELSE IF f.prefix = "PROGRESS" /\ f.json = "obj" THEN "progress"
  ELSE IF f.prefix = "PROGRESS" THEN "ignored"
  ELSE "response"

\* How handleResponse classifies a line.
Classify(f) ==
  IF f.prefix \notin {"OK", "ERROR", "PROGRESS"} THEN "ignored"
  ELSE IF f.json = "bad" THEN "parseError"
  ELSE IF f.prefix = "ERROR" /\ f.json = "null" THEN "parseError"
  ELSE IF f.prefix = "PROGRESS" THEN "progress"
  ELSE "response"

\* An ERROR: branch that hands on the object as it was parsed.
DecodedAsParsed(f) == f

\* The object handed on: response.success = false for an ERROR: line.
Decoded(f) == IF f.prefix = "ERROR" THEN [f EXCEPT !.success = "false"] ELSE f

\* A pending handler that resolves whatever it is given.
pendingHandlerLax(call, resp) == Resolved(resp)

\* The pending handler of sendCommand: resolve a response that has a
\* success field, reject anything else.
pendingHandler(call, resp) ==
  IF resp.json = "obj" /\ resp.success # "absent"
  THEN Resolved(resp)
  ELSE Rejected(<<"Invalid response for", call.cmd>>)

\* A progress handler that only moves the progress bar.
handleProgressOnly(t, resp) == updateProgress(t, resp.progress)

\* serial.handleProgressResponse
handleProgressResponse(t, resp) ==
  LET t1 == updateProgress(t, resp.progress) IN
  IF ~resp.completed THEN t1
  ELSE IF resp.success = "true"
  THEN [t1 EXCEPT !.uip = FALSE,
                  !.st = Status("success", <<"Update completed! Device will restart automatically.">>)]
  ELSE [t1 EXCEPT !.uip = FALSE,
                  !.st = Status("error",
                                IF resp.message # "absent" THEN <<resp.message>>
                                ELSE <<"Update failed", "Unknown error">>)]

\* The read loop hands one complete line to handleResponse.  late: the line
\* is the device's answer to the command whose deadline has just expired.
HandleResponse(f, late) ==
  /\ listening
  /\ late => (hist.last.ev = "timeout" /\ Classify(f) = "response")
  /\ LET kind == Classify(f) IN
     CASE kind = "response" /\ pendingCommand # "none" ->
            LET c == pendingCommand IN
            Settle(c,
                   Note([Mid EXCEPT !.calls = Without(c), !.pending = "none"],
                        Last(IF pendingHandler(calls[c], Decoded(f)).ok
                             THEN "response" ELSE "invalid",
                             NoResp, c, late, << >>)),
                   pendingHandler(calls[c], Decoded(f)))
       [] kind = "response" /\ pendingCommand = "none" ->
            /\ hist' = [hist EXCEPT !.last = Last("unrouted", NoResp, "none", late, << >>)]
            /\ UNCHANGED << connVars, updVars, abt, lr, rt, calls, pendingCommand >>
       [] kind = "progress" /\ f.json = "obj" ->
            /\ ApplyTask(handleProgressResponse(
                 Task(Note(Mid, Last("progress", f, "none", FALSE, << >>))), f))
            /\ UNCHANGED << connVars, abt, lr, rt >>
       [] kind = "progress" /\ f.json # "obj" ->
            \* response.progress of null throws; startListening's catch ends the loop
            /\ listening' = FALSE
            /\ hist' = [hist EXCEPT !.last = Last("loopDied", NoResp, "none", FALSE, << >>)]
            /\ UNCHANGED << portVars, isConnected, uiConnected, deviceInfo,
                            connectionStatus, con, dis, updVars, abt, lr, rt,
                            calls, pendingCommand >>
       [] OTHER ->
            /\ hist' = [hist EXCEPT !.last = Last("dropped", NoResp, "none", FALSE, << >>)]
            /\ UNCHANGED << connVars, updVars, abt, lr, rt, calls, pendingCommand >>

\* ------------------------------------------------------- specification
NoLast == Last("init", NoResp, "none", FALSE, << >>)

\* ------------------------------------------------------ line reassembly
\* The read loop of startListening on a stream of bytes.  Bytes: LF, space,
\* a letter, and the two bytes C3 A9 of one two-byte character.
Bytes == {"LF", "SP", "A", "C3", "A9"}

\* decoder.decode(value, {stream: true}): pend is the lead byte the decoder
\* holds back at the end of a chunk; a malformed byte decodes to U+FFFD.
RECURSIVE Decode(_, _, _)
Decode(pend, bytes, acc) ==
  IF bytes = << >> THEN [chars |-> acc, pend |-> pend]
  ELSE LET b == Head(bytes) IN
       IF pend
       THEN IF b = "A9" THEN Decode(FALSE, Tail(bytes), Append(acc, "e-acute"))
            ELSE Decode(FALSE, bytes, Append(acc, "FFFD"))
       ELSE IF b = "C3" THEN Decode(TRUE, Tail(bytes), acc)
       ELSE IF b = "A9" THEN Decode(FALSE, Tail(bytes), Append(acc, "FFFD"))
       ELSE Decode(FALSE, Tail(bytes), Append(acc, b))

\* buffer.split("\n"): the pieces between line feeds (at least one piece).
RECURSIVE Split(_, _, _)
Split(chars, piece, acc) ==
  IF chars = << >> THEN Append(acc, piece)
  ELSE IF Head(chars) = "LF" THEN Split(Tail(chars), << >>, Append(acc, piece))
  ELSE Split(Tail(chars), Append(piece, Head(chars)), acc)

\* line.trim()
RECURSIVE TrimLeft(_)
TrimLeft(l) == IF l # << >> /\ Head(l) = "SP" THEN TrimLeft(Tail(l)) ELSE l

RECURSIVE TrimRight(_)
TrimRight(l) ==
  IF l # << >> /\ l[Len(l)] = "SP" THEN TrimRight(SubSeq(l, 1, Len(l) - 1)) ELSE l

Trim(l) == TrimRight(TrimLeft(l))

\* The lines of `pieces` that are handed to handleResponse, trimmed.
RECURSIVE Handed(_)
Handed(pieces) ==
  IF pieces = << >> THEN << >>
  ELSE IF Trim(Head(pieces)) # << >>
       THEN <<Trim(Head(pieces))>> \o Handed(Tail(pieces))
       ELSE Handed(Tail(pieces))

\* A loop that handles whatever follows the last line feed as a line.
startListeningEager(l, value) ==
  LET d == Decode(l.pend, value, << >>)
      lines == Split(l.buffer \o d.chars, << >>, << >>)
  IN [l EXCEPT !.pend = d.pend,
               !.buffer = << >>,
               !.out = @ \o Handed(lines)]

\* One iteration of the loop of startListening on the bytes of one read().
startListening(l, value) ==
  LET d == Decode(l.pend, value, << >>)
      lines == Split(l.buffer \o d.chars, << >>, << >>)
  IN [l EXCEPT !.pend = d.pend,
               !.buffer = lines[Len(lines)],
               !.out = @ \o Handed(SubSeq(lines, 1, Len(lines) - 1))]

NoLines == [stream |-> << >>, pend |-> FALSE, buffer |-> << >>, out |-> << >>,
            eaten |-> << >>, reads |-> 0]

\* reader.read() resolves with the next k bytes of the stream.
ReadChunk ==
  /\ \E k \in 1..Len(lr.stream) :
       lr' = [startListening(lr, SubSeq(lr.stream, 1, k)) EXCEPT
                !.stream = SubSeq(lr.stream, k + 1, Len(lr.stream)),
                !.eaten = lr.eaten \o SubSeq(lr.stream, 1, k),
                !.reads = lr.reads + 1]
  /\ UNCHANGED << serialPort, reader, writer, isConnected, listening,
                  pendingCommand, calls, upd, abt, con, dis, updateInProgress,
                  updateStatus, connectionStatus, progress, uiConnected,
                  deviceInfo, closeTimers, hist, rt >>

Streams == UNION { [1..n -> Bytes] : n \in 1..MaxStream }

\* ------------------------------------------- handleResponse, by revision
\* The repository holds handleResponse in two shapes.  "prefix": the line
\* must start with OK: / ERROR: / PROGRESS: (script.js, useSerial.ts, the
\* last revision of part_001).  "embedded": the first two revisions of
\* part_001 look for OK:{...}, ERROR:{...} or PROGRESS:{...} anywhere in the
\* line, and hand a PROGRESS object whose state is RECEIVING to the pending
\* continuation as well.
Revisions == {"prefix", "embedded"}

\* A complete trimmed line.  at = "start": the line is the frame (for a LOG
\* frame: text that holds no token); at = "inside": other text, then the
\* token and payload of the frame.  stamp: the line starts with an ESP32 log
\* time stamp such as [471306].
RawLines ==
  { l \in [frame : Frames, at : {"start", "inside"}, stamp : BOOLEAN] :
      /\ l.at = "inside" => l.frame.prefix # "LOG"
      /\ (l.at = "start" /\ l.frame.prefix # "LOG") => ~l.stamp }

\* What handleResponse of revision rev takes the line for.  In the embedded
\* revisions the pattern TOKEN:(\{.*\}) pulls an object out of the middle of
\* a line; a payload it does not match leaves a line that does not start
\* with a token to the final `return`.
ClassifyLine(rev, l) ==
  IF l.at = "start" THEN Classify(l.frame)
  ELSE IF rev = "prefix" THEN "ignored"
  ELSE IF l.frame.json = "null" THEN "ignored"
  ELSE Classify(l.frame)

\* The command that waits in serial.pendingCommand (pending), its deadline
\* (timer), how its promise settled, whether the read loop still runs, the
\* lines handled so far (n) and, when the last step handled a line, what
\* that line did: who was invoked with
\* it, the success field of the object the continuation got, and the slot,
\* the deadline and the promise before the line.
NoRoute ==
  [rev |-> "prefix", cmd |-> "none", pending |-> FALSE, timer |-> FALSE,
   settled |-> "none", loop |-> TRUE, n |-> 0, sends |-> 0,
   last |-> [line |-> [frame |-> NoResp, at |-> "start", stamp |-> FALSE],
             kind |-> "none", consumers |-> << >>, delivered |-> "none",
             was |-> [pending |-> FALSE, timer |-> FALSE, settled |-> "none"]]]

\* serial.handleResponse(line) of revision r.rev.
handleResponse(r, l) ==
  LET kind == ClassifyLine(r.rev, l)
      f == Decoded(l.frame)
      threw == kind = "progress" /\ f.json # "obj"
      toProgress == kind = "progress"
      toPending ==
        \/ kind = "response" /\ r.pending
        \/ /\ kind = "progress" /\ ~threw /\ r.rev = "embedded"
           /\ r.pending /\ f.state = "RECEIVING"
      out == pendingHandler([NoCall EXCEPT !.cmd = r.cmd], f)
  IN [r EXCEPT
        !.pending = IF toPending THEN FALSE ELSE @,
        !.timer = IF toPending THEN FALSE ELSE @,
        !.settled = IF ~toPending THEN @
                    ELSE IF out.ok THEN "resolved" ELSE "rejected",
        !.loop = ~threw,
        !.n = @ + 1,
        !.last = [line |-> l, kind |-> kind,
                  consumers |-> (IF toProgress THEN <<"progress">> ELSE << >>)
                                  \o (IF toPending THEN <<"pending">> ELSE << >>),
                  delivered |-> IF toPending THEN f.success ELSE "none",
                  was |-> [pending |-> r.pending, timer |-> r.timer,
                           settled |-> r.settled]]]

routeFrame == << serialPort, reader, writer, isConnected, listening,
                 pendingCommand, calls, upd, abt, con, dis, updateInProgress,
                 updateStatus, connectionStatus, progress, uiConnected,
                 deviceInfo, closeTimers, hist, lr >>

\* The read loop hands the next complete line to handleResponse.
RouteLine(l) ==
  /\ rt.loop /\ rt.n < MaxLines
  /\ rt' = handleResponse(rt, l)
  /\ UNCHANGED routeFrame

\* The deadline of the waiting command expires.
RouteTimeout ==
  /\ rt.timer
  /\ rt' = [rt EXCEPT !.pending = FALSE, !.timer = FALSE, !.settled = "timeout",
                      !.last = NoRoute.last]
  /\ UNCHANGED routeFrame

\* A caller sends a command while none is waiting.
RouteSend(cmd) ==
  /\ ~rt.pending /\ rt.sends < MaxSends
  /\ rt' = [rt EXCEPT !.cmd = cmd, !.pending = TRUE, !.timer = TRUE,
                      !.settled = "none", !.sends = @ + 1,
                      !.last = NoRoute.last]
  /\ UNCHANGED routeFrame

RouteCommands == {"GET_STATUS", "SEND_CHUNK"}

InitProgram ==
  /\ serialPort = FALSE /\ reader = FALSE /\ writer = FALSE
  /\ isConnected = FALSE
  /\ listening = FALSE
  /\ pendingCommand = "none"
  /\ calls = [c \in Owners |-> NoCall]
  /\ upd = IdleUpd
  /\ abt = IdleAbt
  /\ con = IdleCon
  /\ dis = IdleDis
  /\ updateInProgress = FALSE
  /\ updateStatus = Hidden
  /\ connectionStatus = Hidden
  /\ progress = Progress(0, FALSE)
  /\ uiConnected = FALSE
  /\ deviceInfo = FALSE
  /\ closeTimers = 0
  /\ hist = [updates |-> 0, connects |-> 0, last |-> NoLast]

Init == InitProgram /\ lr = NoLines /\ rt = NoRoute

\* Any stream of at most MaxStream bytes is about to arrive.
InitLines ==
  /\ InitProgram /\ rt = NoRoute
  /\ lr \in { [NoLines EXCEPT !.stream = s] : s \in Streams }

NextLines == ReadChunk

SpecLines == InitLines /\ [][NextLines]_vars

\* A command may be waiting when the first line arrives, in either revision.
InitRoute ==
  /\ InitProgram /\ lr = NoLines
  /\ rt \in { [NoRoute EXCEPT !.rev = v, !.cmd = c, !.pending = TRUE, !.timer = TRUE] :
               v \in Revisions, c \in RouteCommands }
           \cup { [NoRoute EXCEPT !.rev = v] : v \in Revisions }

NextRoute ==
  \/ \E l \in RawLines : RouteLine(l)
  \/ RouteTimeout
  \/ \E c \in RouteCommands : RouteSend(c)

SpecRoute == InitRoute /\ [][NextRoute]_vars

Next ==
  \/ Connect
  \/ \E o \in {"ok", "cancelled", "openfail"} : ConnectPort(o)
  \/ ConDisconnect
  \/ UserDisconnect
  \/ \E failed \in BOOLEAN : DisconnectStep(failed)
  \/ CloseTimer
  \/ \E size \in FileSizes : StartUpdate(size)
  \/ UpdTimer
  \/ AbortUpdate
  \/ \E c \in Owners : Timeout(c)
  \/ \E c \in Owners : WriteFail(c)
  \/ \E c \in Owners : NotConnected(c)
  \/ \E f \in Frames, late \in BOOLEAN : HandleResponse(f, late)

Spec == Init /\ [][Next]_vars

\* A device that acknowledges every command with success before its
\* deadline, and a user who connects, uploads and waits.  Between the
\* acknowledgements the device may send progress lines and log lines.
AckFrame == Frame("OK", "obj", "true", FALSE, "RECEIVING", FALSE, "Update Mode", "absent", 0)

AckDeviceLines ==
  { AckFrame,
    Frame("PROGRESS", "obj", "true", FALSE, "RECEIVING", FALSE, "absent", "absent", 50),
    Frame("LOG", "bad", "absent", FALSE, "absent", FALSE, "absent", "absent", 0) }

NextAck ==
  \/ Connect
  \/ ConnectPort("ok")
  \/ \E size \in FileSizes : StartUpdate(size)
  \/ UpdTimer
  \/ \E f \in AckDeviceLines : HandleResponse(f, FALSE)
  \/ CloseTimer
  \/ DisconnectStep(FALSE)

SpecAck == Init /\ [][NextAck]_vars

\* The same device and user, but the acknowledgement of a SEND_CHUNK may be
\* lost or arrive after the deadline of the command: the device accepts
\* every chunk that is written to it, and the deadline of a SEND_CHUNK may
\* expire before a line resolves it.
ChunkDeadline == upd.pc = "chunk" /\ Timeout("upd")

NextLateAck ==
  \/ NextAck
  \/ ChunkDeadline
  \/ HandleResponse(AckFrame, TRUE)

SpecLateAck == Init /\ [][NextLateAck]_vars /\ WF_vars(NextLateAck)

\* The same, with a user who may click the abort button during the update.
NextAbort ==
  \/ NextLateAck
  \/ AbortUpdate

SpecAbort == Init /\ [][NextAbort]_vars /\ WF_vars(NextAbort)

\* The acknowledging device, with a user who may disconnect and connect
\* again.
NextReconnect ==
  \/ NextAck
  \/ UserDisconnect

SpecReconnect == Init /\ [][NextReconnect]_vars /\ WF_vars(NextReconnect)

\* The same user with a device that may also report a running update and
\* may leave commands unanswered: deadlines expire, and a command issued
\* while nothing is connected throws.
BusyFrame == Frame("OK", "obj", "true", FALSE, "IDLE", TRUE, "Normal Mode", "absent", 0)

NextUnplug ==
  \/ NextReconnect
  \/ ConDisconnect
  \/ HandleResponse(BusyFrame, FALSE)
  \/ \E c \in Owners : Timeout(c)
  \/ \E c \in Owners : NotConnected(c)

SpecUnplug == Init /\ [][NextUnplug]_vars /\ WF_vars(NextUnplug)

\* ---------------------------------------------------------------- claims
\* A command is in flight: written to an open writer, promise not settled.
InFlight(c) == Active(c) /\ calls[c].wr = "sent"

\* C1: a sendCommand issued while serial.pendingCommand holds an earlier
\* command's continuation is rejected and leaves the slot alone: no task
\* ever replaces a continuation that is waiting in the slot.
C1_SendRejectedWhilePending == ~hist.last.overwrote

\* C2: the orchestrator (startUpdate, abortUpdate, the failure cleanup) never
\* has two of its commands in flight: it writes no command while one it
\* issued earlier has not settled.
C2_OrchestratorSequential ==
  Cardinality({c \in {"upd", "abt", "cln"} : InFlight(c)}) <= 1

\* C3: a response that arrives after the deadline of its command expired is
\* delivered to no caller: it settles no command.
C3_LateResponseDropped == hist.last.late => hist.last.to = "none"

\* The step that settles the promise of command c when the device stays
\* silent: its deadline timer, the rejected write to a writer that is being
\* closed, or the 'Not connected' the call threw.
Expire(c) ==
  /\ \/ Timeout(c)
     \/ calls[c].wr = "closing" /\ WriteFail(c)
     \/ NotConnected(c)
  /\ hist'.last.to = c

\* C4: a command that was issued never waits forever for a lost response:
\* whatever the device has sent, the step that settles the command at its
\* deadline is armed in every state in which the command is unsettled; only
\* an unsettled command holds the slot; and the task of an expired deadline
\* has emptied the slot before the continuation it resumes sends again.
C4_EverySendSettles ==
  /\ \A c \in Owners : Active(c) => ENABLED Expire(c)
  /\ pendingCommand # "none" => Active(pendingCommand)
  /\ hist.last.ev = "timeout" => pendingCommand \in {"none", hist.last.to, "cln"}

C4_Witness ==
  /\ hist.last.ev = "timeout"
  /\ hist.last.to = "upd"
  /\ pendingCommand = "none"
  /\ upd.pc = "startBackoff"

\* A step in which the SEND_CHUNK that startUpdate awaits settles, and such
\* a step in which the attempt failed (the loop retried or gave up).
ChunkSettled == upd.pc = "chunk" /\ hist'.last.to = "upd"

ChunkFailedStep == ChunkSettled /\ (upd'.pc = "idle" \/ upd'.prevFailed)

\* C5: the chunk transfer gives up exactly when maxConsecutiveErrors (3)
\* SEND_CHUNK attempts have failed back-to-back, and a successful chunk
\* resets consecutiveErrors to 0.
C5_AbortsAtCeiling ==
  [][ChunkSettled =>
       /\ (upd'.pc = "idle") <=>
            (ChunkFailedStep /\ upd.streak + 1 = maxConsecutiveErrors)
       /\ ~ChunkFailedStep => upd'.consecutiveErrors = 0]_vars

C7_AbortAlwaysClears ==
  (hist.last.to = "abt" /\ hist.last.info # << >> /\ hist.last.info[1] = "transferring")
    => /\ ~updateInProgress
       /\ progress = Progress(0, FALSE)
       /\ updateStatus = Status("warning", <<"Update aborted">>)

\* C8: a PROGRESS line with completed=true handled while startUpdate awaits
\* a SEND_CHUNK ends the update state in that very task, the chunk still in
\* flight: updateInProgress is false and the status is the success status,
\* or an error status with the message of the line.
C8_CompletedEndsUpdate ==
  (hist.last.ev = "progress" /\ hist.last.frame.completed /\ upd.pc = "chunk")
    => /\ ~updateInProgress
       /\ Active("upd")
       /\ IF hist.last.frame.success = "true"
          THEN updateStatus.type = "success"
          ELSE /\ updateStatus.type = "error"
               /\ hist.last.frame.message # "absent"
                    => updateStatus.msg = <<hist.last.frame.message>>

C8_Witness ==
  /\ hist.last.ev = "progress"
  /\ hist.last.frame.completed
  /\ hist.last.frame.message = "flash write error"
  /\ upd.pc = "chunk" /\ upd.i = 1
  /\ InFlight("upd")

\* C9: when GET_INFO was answered with success and a mode other than
\* 'Update Mode', connect returns false with reader, writer and port released
\* and isConnected false, the connection status names the wrong mode, and no
\* START_UPDATE is written between that answer and the return of connect.
C9_WrongModeCloses ==
  /\ (hist.last.ev = "connectReturn" /\ hist.last.info[1] = "WrongMode")
       => /\ hist.last.info[2] = "false"
          /\ ~reader /\ ~writer /\ ~serialPort /\ ~isConnected /\ ~uiConnected
          /\ connectionStatus =
               Status("error", <<"Connection failed", "Wrong device mode", "Normal Mode">>)
  /\ con.cause = "WrongMode" => hist.last.sent # "START_UPDATE"

\* C10: however the stream is split across read() calls, the lines handed
\* to handleResponse, the retained fragment and the state of the decoder are
\* those of one read() delivering all the bytes consumed so far; the
\* fragment after the last line feed is retained, not handed.
C10_ChunkBoundaryIndependence ==
  LET whole == startListening(NoLines, lr.eaten) IN
  /\ lr.out = whole.out
  /\ lr.buffer = whole.buffer
  /\ lr.pend = whole.pend
  /\ \A n \in 1..Len(lr.buffer) : lr.buffer[n] # "LF"

C10_Witness ==
  /\ lr.eaten = <<"C3", "A9", "LF", "A">>
  /\ lr.reads = 4
  /\ lr.out = << <<"e-acute">> >>
  /\ lr.buffer = <<"A">>

\* The last step handed a line to handleResponse; whether the slot, the
\* deadline and the promise are as before it; whom the line was handed to.
Routed == rt.last.kind # "none"

SlotUntouched ==
  /\ rt.pending = rt.last.was.pending
  /\ rt.timer = rt.last.was.timer
  /\ rt.settled = rt.last.was.settled

ToPending == \E i \in 1..Len(rt.last.consumers) : rt.last.consumers[i] = "pending"

ToProgress == \E i \in 1..Len(rt.last.consumers) : rt.last.consumers[i] = "progress"

\* C11: a line is handed to one consumer at most; a PROGRESS: frame goes to
\* the progress observer only and leaves the pending continuation, its slot
\* and its deadline alone, whatever its fields; an OK: / ERROR: frame never
\* goes to the progress observer.
C11_OneConsumerPerFrame ==
  Routed =>
    /\ Len(rt.last.consumers) <= 1
    /\ rt.last.line.frame.prefix = "PROGRESS" => (~ToPending /\ SlotUntouched)
    /\ rt.last.line.frame.prefix \in {"OK", "ERROR"} => ~ToProgress

\* C12: a line that does not start with OK:, ERROR: or PROGRESS:, a token
\* later in the line or not, invokes no consumer, leaves the slot, the
\* deadline and the promise as they were, and the read loop goes on.
C12_UnprefixedLineIgnored ==
  (Routed /\ (rt.last.line.at = "inside" \/ rt.last.line.frame.prefix = "LOG"))
    => /\ rt.last.consumers = << >>
       /\ SlotUntouched
       /\ rt.loop

\* C13: the object the pending continuation gets from an ERROR: line has
\* success = false whatever the payload said, and the send resolves with it;
\* from an OK: line it has the success value of the payload.
C13_PrefixOverridesPayload ==
  (Routed /\ ToPending) =>
    /\ rt.last.line.frame.prefix = "ERROR" =>
         (rt.last.delivered = "false" /\ rt.settled = "resolved")
    /\ rt.last.line.frame.prefix = "OK" =>
         rt.last.delivered = rt.last.line.frame.success

C13_Witness ==
  /\ Routed /\ ToPending
  /\ rt.last.line.at = "start"
  /\ rt.last.line.frame.prefix = "ERROR"
  /\ rt.last.line.frame.success = "true"
  /\ rt.last.delivered = "false"
  /\ rt.settled = "resolved"

\* A line the device may send next that answers the waiting command.
ValidAnswer ==
  [frame |-> Frame("OK", "obj", "true", FALSE, "RECEIVING", FALSE, "Update Mode", "absent", 0),
   at |-> "start", stamp |-> FALSE]

\* C14: a line that starts with OK:, ERROR: or PROGRESS: and whose remainder
\* is not JSON invokes no consumer and leaves the slot, the deadline and the
\* promise as they were; the read loop goes on, and a command that waits is
\* still settled by its deadline and by a valid response that follows.
C14_ParseFailureDropped ==
  (/\ Routed
   /\ rt.last.line.at = "start"
   /\ rt.last.line.frame.prefix \in {"OK", "ERROR", "PROGRESS"}
   /\ rt.last.line.frame.json = "bad")
    => /\ rt.last.consumers = << >>
       /\ SlotUntouched
       /\ rt.loop
       /\ rt.pending =>
            /\ ENABLED (RouteTimeout /\ rt'.settled = "timeout")
            /\ rt.n < MaxLines =>
                 ENABLED (RouteLine(ValidAnswer) /\ rt'.settled = "resolved")

C14_Witness ==
  /\ rt.n = 2
  /\ rt.last.line.at = "start"
  /\ rt.last.line.frame.prefix = "OK"
  /\ rt.last.line.frame.json = "bad"
  /\ rt.pending /\ rt.timer
  /\ rt.last.consumers = << >>

\* sendCommandWithRetry as startUpdate uses it: the command, the number of
\* attempts, where it backs off, and the error a rejected attempt carries.
RetryPcs == {"start", "finish"}

BackoffPcs == {"startBackoff", "finishBackoff"}

RetriedCommand(pc) == IF pc = "start" THEN "START_UPDATE" ELSE "FINISH_UPDATE"

RetriesOf(pc) == IF pc = "start" THEN START_RETRIES ELSE MAX_RETRIES

BackoffOf(pc) == IF pc = "start" THEN "startBackoff" ELSE "finishBackoff"

AttemptOf(pc) == IF pc = "startBackoff" THEN "start" ELSE "finish"

RejectionOf(ev, cmd) ==
  CASE ev = "timeout" -> <<"Command timeout", cmd>>
    [] ev = "writeFail" -> <<"Write failed">>
    [] ev = "notConnected" -> <<"Not connected to device">>
    [] OTHER -> <<"Invalid response for", cmd>>

\* A step in which an attempt of sendCommandWithRetry settles.
AttemptSettled == upd.pc \in RetryPcs /\ hist'.last.to = "upd"

\* C15: sendCommandWithRetry sends at most `retries` times, one attempt at a
\* time and the next one only after the back-off that follows a failed one;
\* the first attempt that resolves ends it, with no further send of the
\* command; when the last attempt fails, its error is the one thrown (shown
\* by handleUpdateError).
C15_RetryBounded ==
  [][/\ upd.pc \in RetryPcs =>
          /\ upd.attempt \in 1..RetriesOf(upd.pc)
          /\ Active("upd") /\ calls["upd"].cmd = RetriedCommand(upd.pc)
     /\ upd.pc \in BackoffPcs =>
          /\ ~Active("upd")
          /\ upd.attempt < RetriesOf(AttemptOf(upd.pc))
          /\ upd'.pc # upd.pc =>
               /\ upd'.pc = AttemptOf(upd.pc)
               /\ upd'.attempt = upd.attempt + 1
               /\ calls'["upd"].cmd = RetriedCommand(upd'.pc)
     /\ AttemptSettled =>
          IF hist'.last.ev = "response"
          THEN upd'.pc \notin {upd.pc, BackoffOf(upd.pc)}
          ELSE IF upd.attempt < RetriesOf(upd.pc)
          THEN /\ upd'.pc = BackoffOf(upd.pc)
               /\ upd'.attempt = upd.attempt
               /\ calls'["upd"] = NoCall
          ELSE /\ upd'.pc = "idle"
               /\ updateStatus' =
                    Status("error", <<"Update failed">>
                             \o RejectionOf(hist'.last.ev, RetriedCommand(upd.pc)))]_vars

C15_Witness ==
  /\ upd.pc = "idle"
  /\ hist.last.to = "upd" /\ hist.last.ev = "timeout"
  /\ updateStatus = Status("error", <<"Update failed", "Command timeout", "FINISH_UPDATE">>)

\* The disconnect of the last task dropped the continuation of call c.
CutByDisconnect(c) == hist.last.info = <<"cut", c>>

\* C16: a command whose continuation a disconnect took out of
\* serial.pendingCommand gets no resolution afterwards: once the disconnect
\* has emptied the slot, no task that settles the command (its deadline
\* timer, the failure of its write) can run.
C16_NoResolutionAfterClose ==
  \A c \in Owners :
    CutByDisconnect(c) => ~ENABLED (Timeout(c) \/ WriteFail(c))

\* A call of disconnect() that went through the release steps has just
\* returned.
DisconnectDone ==
  /\ hist.last.ev \in {"disconnected", "connectReturn"}
  /\ \E n \in 1..Len(hist.last.info) : hist.last.info[n] = "closed"

\* C17: whichever of reader.cancel(), releaseLock(), writer.close() and
\* serialPort.close() throw, disconnect() runs to its end, and when it
\* returns reader, writer and port are released, serial.pendingCommand is
\* empty, isConnected is false, the UI shows disconnected and deviceInfo is
\* cleared.
C17_DisconnectFaultTolerant ==
  DisconnectDone =>
    /\ dis.pc = "idle"
    /\ ~reader /\ ~writer /\ ~serialPort
    /\ pendingCommand = "none"
    /\ ~isConnected /\ ~uiConnected /\ ~deviceInfo

\* A step in which disconnect() is called with nothing connected and returns
\* at once.
EarlyReturn == dis.pc = "idle" /\ dis'.pc = "return"

\* C18: disconnect() called on a transport that is already closed returns
\* (true) without throwing, touches no stream handle and leaves reader,
\* writer, port and serial.pendingCommand empty.
C18_DisconnectIdempotent ==
  [][EarlyReturn =>
       /\ UNCHANGED << reader, writer, serialPort, isConnected >>
       /\ ~reader' /\ ~writer' /\ ~serialPort' /\ ~isConnected'
       /\ pendingCommand' = "none"]_vars

\* C19: on a device that acknowledges every command, the chunk loop sends
\* SEND_CHUNK for index 0 first and then always for the index after the one
\* sent before, each index once, ceil(size / CHUNK_SIZE) of them in all;
\* FINISH_UPDATE is sent once, after the last index, with the whole file
\* transferred; and the attempt ends with the success status and the
\* scheduled disconnect.
C19_AllChunksOnce ==
  LET total == TotalChunks(upd.size) IN
  /\ upd.size > 0 =>
       /\ (total - 1) * CHUNK_SIZE < upd.size
       /\ upd.size <= total * CHUNK_SIZE
  /\ upd.pc = "chunk" =>
       /\ calls["upd"].cmd = "SEND_CHUNK" /\ calls["upd"].arg = upd.i
       /\ upd.i = upd.prevIdx + 1 /\ ~upd.prevFailed
       /\ upd.i < total
  /\ upd.pc = "chunkDelay" =>
       upd.prevIdx = upd.i /\ ~upd.prevFailed /\ upd.i < total - 1
  /\ upd.pc = "finish" =>
       /\ calls["upd"].cmd = "FINISH_UPDATE" /\ upd.attempt = 1
       /\ upd.prevIdx = total - 1 /\ ~upd.prevFailed
       /\ upd.i = total
       /\ upd.bytesTransferred = upd.size
  /\ (hist.last.to = "upd" /\ upd.pc = "idle") =>
       /\ updateStatus =
            Status("success", <<"Update completed! Device will restart automatically.">>)
       /\ progress = Progress(100, TRUE)
       /\ ~updateInProgress
       /\ closeTimers > 0

C19_Witness ==
  /\ hist.last.to = "upd" /\ hist.last.ev = "response"
  /\ upd.pc = "idle"
  /\ updateStatus.type = "success"
  /\ closeTimers = 1

\* The commands of prepareDeviceForUpdate, a step in which one of them
\* settles, and one in which it settles by rejection (timeout, write error,
\* not connected, invalid response; an ERROR line resolves the call).
CleanupPcs == {"status", "statusAbort", "reset"}

CleanupSettled == upd.pc \in CleanupPcs /\ hist'.last.to = "upd"

CleanupFailed == CleanupSettled /\ hist'.last.ev # "response"

\* What the step that settles a cleanup command leaves alone and where it
\* goes on: no status is shown, the update stays as it is, and after a
\* rejection the next command of the sequence follows at once.
CleanupGoesOn ==
  /\ updateStatus' = updateStatus
  /\ updateInProgress' = updateInProgress
  /\ upd'.pc \in {"statusAbort", "settle1", "reset", "settle2", "start"}
  /\ CleanupFailed =>
       IF upd.pc = "reset"
       THEN upd'.pc = "start" /\ calls'["upd"].cmd = "START_UPDATE" /\ upd'.attempt = 1
       ELSE upd'.pc = "reset" /\ calls'["upd"].cmd = "ABORT_UPDATE"

UpdateCommands == {"START_UPDATE", "SEND_CHUNK", "FINISH_UPDATE"}

\* The read loop hands line f to handleResponse while startUpdate awaits
\* the answer to START_UPDATE, and the line resolves that call.
StartAnsweredWith(f) ==
  /\ upd.pc = "start" /\ pendingCommand = "upd"
  /\ hist'.last.to = "upd" /\ hist'.last.ev = "response"
  /\ \E late \in BOOLEAN : HandleResponse(f, late)

StartRefused(resp) == resp.success # "true" \/ resp.state # "RECEIVING"

\* C21: an answer to START_UPDATE with success false, or with success true
\* and a state other than RECEIVING, ends the attempt in that step with the
\* failure status: the invocation has returned, so no call of it is left,
\* nothing of START_UPDATE, SEND_CHUNK or FINISH_UPDATE is written, and
\* these three commands are only ever written by a running invocation.
C21_StartRefusalFatal ==
  [][/\ \A f \in Frames :
          (StartAnsweredWith(f) /\ StartRefused(Decoded(f))) =>
            /\ upd' = IdleUpd /\ calls'["upd"] = NoCall
            /\ ~updateInProgress'
            /\ updateStatus'.type = "error"
            /\ hist'.last.sent \notin UpdateCommands
     /\ hist'.last.sent \in UpdateCommands =>
          /\ upd'.pc \in {"start", "chunk", "finish"}
          /\ calls'["upd"].cmd = hist'.last.sent]_vars

C21_Witness ==
  /\ upd = IdleUpd /\ hist.last.to = "upd" /\ hist.last.ev = "response"
  /\ updateStatus = Status("error", <<"Update failed", "Expected RECEIVING state, got", "IDLE">>)
  /\ ~updateInProgress

\* A step in which the ABORT_UPDATE of handleUpdateError fails: its deadline
\* expires, the line that answers it is no valid response, or it cannot be
\* written (write error, not connected).
CleanupAbortFailed ==
  /\ Active("cln") /\ hist'.last.to = "cln"
  /\ hist'.last.ev \in {"timeout", "invalid", "writeFail", "notConnected"}

\* C22: however the ABORT_UPDATE sent by handleUpdateError fails, the
\* failure status on display stays, startUpdate (which has returned) is not
\* touched, and the rejection does not reach the window's
\* unhandledrejection handler.
C22_CleanupAbortSwallowed ==
  [][CleanupAbortFailed =>
       /\ updateStatus' = updateStatus
       /\ updateInProgress' = updateInProgress
       /\ upd' = upd
       /\ hist'.last.info # <<"unhandledrejection">>]_vars

\* The transport is Disconnected: nothing is open and neither connect nor
\* disconnect is under way.
Disconnected ==
  /\ ~isConnected /\ ~serialPort /\ ~reader /\ ~writer
  /\ con.pc = "idle" /\ dis.pc = "idle"

\* C23: whenever the transport is Disconnected, no update is in progress.
C23_UpdatingOnlyConnected == Disconnected => ~updateInProgress

\* The delay the last task set before a retry (0: it set none).
DelaySet == IF Len(hist.last.info) = 2 /\ hist.last.info[1] = "retry in"
            THEN hist.last.info[2] ELSE 0

\* C24: with the default retries = MAX_RETRIES, a failed attempt of
\* FINISH_UPDATE is followed by a retry as long as fewer than MAX_RETRIES
\* retries were made (so a third attempt follows two failed ones), and the
\* delay before the second retry is longer than before the first.
C24_TwoRetriesGrowingBackoff ==
  [][/\ (upd.pc = "finish" /\ hist'.last.to = "upd" /\ hist'.last.ev # "response"
           /\ upd.attempt <= MAX_RETRIES) =>
          /\ upd'.pc = "finishBackoff"
          /\ DelaySet' = retryDelay("FINISH_UPDATE", upd.attempt)
     /\ DelaySet' # 0 =>
          \A cmd \in UpdateCommands : retryDelay(cmd, 2) > retryDelay(cmd, 1)]_vars

\* The deadline timer of call c fires in this step.
DeadlineOf(c) == Active(c) /\ hist'.last.ev = "timeout" /\ hist'.last.to = c

\* C25: the deadline timer of a command leaves the slot alone when the slot
\* holds the continuation of a different command: after the timer's task
\* that continuation is still in the slot, unless the code resumed by the
\* rejection sent a command of its own and thereby replaced it.
C25_TimeoutFreesOwnSlotOnly ==
  [][\A c \in Owners :
       (DeadlineOf(c) /\ pendingCommand \notin {"none", c}) =>
          \/ pendingCommand' = pendingCommand
          \/ pendingCommand' = c /\ hist'.last.overwrote]_vars

\* The SEND_CHUNK of the index that was written before has just been written
\* again, after the deadline of the first one expired: a device that
\* accepts what is written to it has now accepted that chunk twice.
ChunkResent ==
  /\ upd.pc = "chunk"
  /\ hist.last.ev = "timeout" /\ hist.last.to = "upd"
  /\ hist.last.sent = "SEND_CHUNK"
  /\ upd.prevFailed /\ calls["upd"].arg = upd.prevIdx

\* startUpdate has just ended Succeeded.
Succeeded ==
  /\ hist.last.to = "upd" /\ upd.pc = "idle"
  /\ updateStatus.type = "success"

\* C26: an attempt in which the device was given a chunk twice does not end
\* Succeeded, so that the chunks accepted in a Succeeded attempt are the
\* file's chunks, each once and in order, also when an acknowledgement was
\* lost or late.
C26_NoChunkTwice == [](ChunkResent => [](~Succeeded))

\* abortUpdate, called while startUpdate was in the chunk loop, has just
\* completed: its ABORT_UPDATE was answered and it showed 'Update aborted'.
AbortedWhileTransferring ==
  /\ hist.last.to = "abt"
  /\ hist.last.info = <<"transferring", "aborted">>

\* The last task wrote a SEND_CHUNK or a FINISH_UPDATE.
TransferContinued == hist.last.sent \in {"SEND_CHUNK", "FINISH_UPDATE"}

\* C27: after abortUpdate has completed for an attempt in the chunk loop,
\* no SEND_CHUNK and no FINISH_UPDATE is written any more.
C27_NoSendAfterAbort == [](AbortedWhileTransferring => [](~TransferContinued))

\* A terminal status of the running attempt is on display: startUpdate hid
\* the status line when it began and has not returned.
TerminalShown ==
  /\ upd.pc # "idle"
  /\ updateStatus.type \in {"success", "error", "warning"}

\* C28: once a terminal status has been shown for an attempt, no other
\* status and no further progress value is shown for it; the status line
\* and the progress bar change only by being hidden and reset (disconnect).
C28_OneTerminalOutcome ==
  [][TerminalShown =>
       /\ updateStatus' \in {updateStatus, Hidden}
       /\ progress' \in {progress, Progress(0, FALSE)}]_vars

\* connect() has just opened the port.
NewConnection == hist.last.ev = "port" /\ isConnected

\* The disconnect scheduled by handleUpdateSuccess has just fired on an open
\* connection and started to release it.
TimerTearsDown ==
  /\ hist.last.ev = "closeTimer"
  /\ dis.pc \in {"cancel", "wclose", "sleep"}

\* C29: the scheduled disconnect does not start on a connection while a
\* startUpdate is running, and after an attempt has ended Succeeded a
\* connection opened later is not torn down by the scheduled disconnect.
C29_CloseSparesLaterWork ==
  /\ [](TimerTearsDown => upd.pc = "idle")
  /\ [](Succeeded => [](NewConnection => [](~TimerTearsDown)))

\* The connection is open: connect() has opened the port and taken the
\* reader, and no disconnect has begun.
ConnectionOpen == isConnected /\ reader /\ dis.pc = "idle"

\* C30: as long as the connection is open the read loop of startListening
\* is running, so that a complete line the device sends (the answer to
\* GET_INFO among them) is handed to handleResponse.
C30_ReadLoopRuns == ConnectionOpen => listening

\* The unconditional ABORT_UPDATE of prepareDeviceForUpdate has just thrown
\* 'Not connected' without being written, and startUpdate went on to the
\* first attempt of START_UPDATE.
ResetAbortUnwritten ==
  /\ upd.pc = "start" /\ upd.attempt = 1
  /\ hist.last.to = "upd" /\ hist.last.ev = "notConnected"

StartWritten == hist.last.sent = "START_UPDATE"

\* A step of startUpdate before START_UPDATE: the phases follow one another
\* in the order of prepareDeviceForUpdate and initializeDeviceUpdate, each
\* issues its command, and the conditional ABORT_UPDATE is issued exactly
\* when a response with update_active true resolved GET_STATUS.
CleanupOrder ==
  LET Before == {"status", "statusAbort", "settle1", "reset", "settle2"}
      Order == { <<"idle", "status">>, <<"status", "statusAbort">>,
                 <<"status", "reset">>, <<"statusAbort", "settle1">>,
                 <<"statusAbort", "reset">>, <<"settle1", "reset">>,
                 <<"reset", "settle2">>, <<"reset", "start">>,
                 <<"settle2", "start">> }
      FirstStart == upd'.pc = "start" /\ upd.pc \notin {"start", "startBackoff"}
  IN
  /\ (upd'.pc # upd.pc /\ (upd.pc \in Before \/ upd'.pc \in Before \/ FirstStart))
       => <<upd.pc, upd'.pc>> \in Order
  /\ (upd'.pc # upd.pc /\ upd'.pc \in Before \ {"settle1", "settle2"}) =>
       calls'["upd"].cmd = IF upd'.pc = "status" THEN "GET_STATUS" ELSE "ABORT_UPDATE"
  /\ FirstStart => calls'["upd"].cmd = "START_UPDATE" /\ upd'.attempt = 1
  /\ (upd.pc = "status" /\ upd'.pc = "statusAbort") => hist'.last.ev = "response"
  /\ \A f \in Frames :
       (upd.pc = "status" /\ pendingCommand = "upd" /\ hist'.last.ev = "response"
          /\ hist'.last.to = "upd" /\ \E late \in BOOLEAN : HandleResponse(f, late))
       => (upd'.pc = "statusAbort" <=> Decoded(f).update_active)

\* C31: startUpdate issues GET_STATUS first, then ABORT_UPDATE if and only
\* if GET_STATUS was resolved by a response with update_active true, then
\* the unconditional ABORT_UPDATE, and only then START_UPDATE; and a
\* START_UPDATE is never written to the device in an attempt whose
\* unconditional ABORT_UPDATE was not.
C31_CleanupSequence ==
  /\ [][CleanupOrder]_vars
  /\ [](ResetAbortUnwritten => [](~StartWritten))

\* A step of startUpdate that settles its FINISH_UPDATE, and the line that
\* resolved it.
FinishSettled == upd.pc = "finish" /\ hist'.last.to = "upd"

FinishAnsweredWith(f) ==
  /\ FinishSettled /\ pendingCommand = "upd" /\ hist'.last.ev = "response"
  /\ \E late \in BOOLEAN : HandleResponse(f, late)

\* C32: startUpdate shows 100% and the success status only in the step in
\* which a response with success true resolves FINISH_UPDATE; it issues
\* FINISH_UPDATE only when the last chunk index has been acknowledged, every
\* index before it having been acknowledged in turn; and when FINISH_UPDATE
\* is rejected on its last attempt or answered with success other than true
\* the attempt ends with the failure status and the progress bar is left
\* where it was.
C32_SuccessOnlyAfterFinish ==
  [][/\ (upd' # upd /\ progress' # progress /\ progress'.percent = 100) =>
          /\ FinishSettled /\ hist'.last.ev = "response"
          /\ updateStatus'.type = "success" /\ upd' = IdleUpd
     /\ (upd' # upd /\ updateStatus' # updateStatus /\ updateStatus'.type = "success") =>
          /\ FinishSettled /\ hist'.last.ev = "response"
          /\ progress' = Progress(100, TRUE)
     /\ \A f \in Frames :
          FinishAnsweredWith(f) =>
            IF Decoded(f).success = "true"
            THEN updateStatus'.type = "success" /\ progress' = Progress(100, TRUE)
            ELSE /\ updateStatus'.type = "error" /\ upd' = IdleUpd
                 /\ progress' = progress /\ ~updateInProgress'
     /\ (FinishSettled /\ hist'.last.ev # "response") =>
          IF upd.attempt = MAX_RETRIES
          THEN /\ updateStatus'.type = "error" /\ upd' = IdleUpd
               /\ progress' = progress /\ ~updateInProgress'
          ELSE upd'.pc = "finishBackoff" /\ updateStatus' = updateStatus
                 /\ progress' = progress
     /\ (upd'.pc = "finish" /\ upd.pc \notin {"finish", "finishBackoff"}) =>
          /\ upd.pc \in {"chunk", "chunkDelay"}
          /\ upd'.prevIdx = TotalChunks(upd.size) - 1 /\ ~upd'.prevFailed
          /\ upd'.ackedEnd = upd.size /\ upd'.bytesTransferred = upd.size
          /\ upd'.i = TotalChunks(upd.size)
     /\ (upd.pc = "chunk" /\ upd'.pc \in {"chunk", "chunkDelay", "finish"}
           /\ hist'.last.to = "upd" /\ ~upd'.prevFailed) =>
          /\ upd'.prevIdx = upd.i
          /\ upd'.ackedEnd = ChunkEnd(upd.i, upd.size)
          /\ upd.prevIdx = IF upd.prevFailed THEN upd.i ELSE upd.i - 1]_vars

C32_Witness ==
  /\ hist.last.to = "upd" /\ hist.last.ev = "response"
  /\ upd = IdleUpd
  /\ progress = Progress(100, TRUE)
  /\ updateStatus.type = "success" /\ ~updateInProgress

\* startUpdate ends on a fatal path in this step: its catch block runs
\* handleUpdateError.
FatalStep ==
  /\ upd.pc \in {"start", "chunk", "finish"} /\ upd' = IdleUpd
  /\ hist'.last.to = "upd"
  /\ updateStatus'.type = "error"

\* C33: a fatal path writes one ABORT_UPDATE to the device, and does so
\* before it shows the failure status and clears updateInProgress.
C33_AbortBeforeFailureStatus ==
  [][FatalStep =>
       /\ hist'.last.sent = "ABORT_UPDATE"
       /\ calls'["cln"].cmd = "ABORT_UPDATE"
       /\ ~updateInProgress'
       /\ hist'.last.info = <<"sendCommand", "showStatus">>]_vars

\* startUpdate ends Succeeded in this step.
SuccessStep ==
  /\ upd.pc = "finish" /\ upd' = IdleUpd
  /\ hist'.last.to = "upd" /\ updateStatus'.type = "success"

\* The scheduled disconnect is called in this step, or the disconnect() it
\* called takes a step.
ScheduledCloseStep ==
  \/ hist'.last.ev = "closeTimer"
  \/ dis.caller = "timer" /\ dis' # dis

\* C34: an attempt that ends Succeeded schedules one disconnect and does
\* not call it in the same step; the scheduled disconnect is called once,
\* when the timer fires; and whatever step of it fails, its steps write no
\* failure status (they hide the status lines or leave them) and the
\* success status is shown when it has returned.
C34_CloseAfterSuccess ==
  [][/\ SuccessStep => closeTimers' = closeTimers + 1 /\ dis' = dis
     /\ closeTimers' # closeTimers =>
          \/ SuccessStep
          \/ /\ hist'.last.ev = "closeTimer" /\ closeTimers' = closeTimers - 1
             /\ dis.pc = "idle" /\ dis'.pc # "idle" /\ dis'.caller = "timer"
     /\ ScheduledCloseStep =>
          /\ updateStatus' \in {updateStatus, Hidden}
          /\ connectionStatus' # connectionStatus => connectionStatus'.type # "error"
          /\ (dis.caller = "timer" /\ dis'.pc = "idle") =>
               connectionStatus' =
                 Status("success", <<"Update completed successfully. Device is restarting.">>)]_vars

C34_Witness ==
  /\ hist.last.ev = "disconnected" /\ hist.last.info = <<"closed", "threw">>
  /\ dis.pc = "idle" /\ closeTimers = 0
  /\ connectionStatus =
       Status("success", <<"Update completed successfully. Device is restarting.">>)

\* C35: while the transport is Disconnected (disconnect() has returned and
\* no connect has begun) serial.pendingCommand is empty, and a sendCommand
\* that found the writer released has armed no timer and registered no
\* continuation: it fails with 'Not connected to device'.
C35_NoPendingAfterDisconnect ==
  /\ Disconnected => pendingCommand = "none"
  /\ \A c \in Owners :
       calls[c].wr = "notconn" => ~calls[c].timer /\ pendingCommand # c

\* C36: when connect() returns true, the line that settled GET_INFO carried
\* success true and current_mode 'Update Mode', deviceInfo is published and
\* isConnected is true; when it returns false, for whatever cause, reader,
\* writer and port are released, serial.pendingCommand is empty and
\* isConnected is false.
C36_ConnectOutcome ==
  [][hist'.last.ev = "connectReturn" =>
       IF hist'.last.info[2] = "true"
       THEN /\ con.pc = "info" /\ pendingCommand = "con"
            /\ \E f \in Frames :
                 /\ Decoded(f).success = "true"
                 /\ Decoded(f).current_mode = "Update Mode"
                 /\ \E late \in BOOLEAN : HandleResponse(f, late)
            /\ deviceInfo' /\ isConnected' /\ uiConnected'
       ELSE /\ ~reader' /\ ~writer' /\ ~serialPort'
            /\ pendingCommand' = "none"
            /\ ~isConnected' /\ ~uiConnected']_vars

\* C37: handling a line never throws out of the read loop: a step in which
\* the loop of startListening stops although no disconnect() has begun is
\* not a step in which handleResponse was given a line, whatever the line.
C37_NoLineStopsLoop ==
  [][(listening /\ ~listening' /\ dis' = dis) =>
       ~(\E f \in Frames, late \in BOOLEAN : HandleResponse(f, late))]_vars

\* The read loop hands line f, an OK: line whose payload is not an object
\* or has no success field, to handleResponse while a command is pending.
InvalidAnswer(f) ==
  /\ pendingCommand # "none" /\ f.prefix = "OK"
  /\ f.json \in {"obj", "null"}
  /\ (f.json # "obj" \/ f.success = "absent")
  /\ hist'.last.to = pendingCommand
  /\ \E late \in BOOLEAN : HandleResponse(f, late)

\* C38: such a line is not resolved to the caller: the pending promise is
\* rejected with 'Invalid response for <command>', the call with its
\* deadline timer is gone, and serial.pendingCommand is empty; a call or a
\* continuation found after the step is that of a command which the code
\* that ran on the rejection has issued since.
C38_InvalidResponseRejected ==
  [][\A f \in Frames :
       InvalidAnswer(f) =>
         LET c == pendingCommand IN
         /\ pendingHandler(calls[c], Decoded(f)) =
              Rejected(<<"Invalid response for", calls[c].cmd>>)
         /\ hist'.last.ev = "invalid" /\ hist'.last.to = c
         /\ \A o \in {c, pendingCommand'} \ {"none"} :
              \/ calls'[o] = NoCall /\ pendingCommand' # o
              \/ calls'[o].wr = "closing"
              \/ hist'.last.sent = calls'[o].cmd]_vars

C38_Witness ==
  /\ hist.last.ev = "invalid" /\ hist.last.to = "upd"
  /\ pendingCommand = "none" /\ calls["upd"] = NoCall
  /\ upd.pc # "idle"

\* C39: the deadline armed for a SEND_CHUNK is strictly longer than the
\* default deadline of sendCommand.
C39_ChunkDeadlineLonger ==
  \A c \in Owners :
    (calls[c].timer /\ calls[c].cmd = "SEND_CHUNK") =>
      timeoutMs(calls[c].cmd, customTimeout(calls[c].cmd)) > COMMAND_TIMEOUT

\* C40: the deadline armed for the GET_INFO of connect is longer than the
\* default deadline of sendCommand.
C40_GetInfoDeadlineLonger ==
  (con.pc = "info" /\ calls["con"].timer /\ calls["con"].cmd = "GET_INFO") =>
    timeoutMs(calls["con"].cmd, customTimeout(calls["con"].cmd)) > COMMAND_TIMEOUT

====
